---- MODULE Spec2Model ----
(***************************************************************************)
(* A model of the SPOT map component (MVP_SPOT): the affinity scorer       *)
(* vibeScore, the visibility filter (the visibleSpots memo), the marker    *)
(* style mapper markerStyle, and the component's mode / toast / timer /    *)
(* geolocation state machine.                                              *)
(*                                                                         *)
(* A personality tag is the tuple of its four characters, so that a[i] is  *)
(* the character comparison the code makes.  A spot is [id, mbti]; its id  *)
(* is its position in the generated array (the code's `spot_${i}_...`).    *)
(* Latitudes and longitudes are not modelled: markerStyle is modelled on   *)
(* the distance d (whole metres) that distanceMeters hands it, in exact    *)
(* rational arithmetic (numerator over an explicit denominator).           *)
(***************************************************************************)
EXTENDS Integers, Sequences, FiniteSets, TLC

VARIABLES
    pc,            \* UI: "constructed" | "mounted" | "unmounted"; pure runs: "args" | "returned"
    mode,          \* useState<Mode>
    myMbti,        \* useState: the viewer's tag
    me,            \* useState: the viewer's location ("default" | "located")
    spots,         \* useState<Spot[]>
    scored,        \* the memo's sorted array of {s, score} at the last render
    visibleSpots,  \* the value of the visibleSpots memo at the last render
    toast,         \* useState: [show, title, sub]
    timers,        \* the browser's pending timeouts: a set of [id, stale]
    timerCurrent,  \* timer.current: the id last returned by setTimeout, 0 for null
    geo,           \* getCurrentPosition: "idle" | "pending" | "done"
    seen,          \* history: per mode, the visible sequence first rendered for the current data
    d,             \* markerStyle's input: the distance of the spot, in metres
    style          \* markerStyle's result

vars == <<pc, mode, myMbti, me, spots, scored, visibleSpots, toast, timers,
          timerCurrent, geo, seen, d, style>>

---------------------------------------------------------------------------
(* Bounds of the model *)

MaxSpots == 20
MaxPattern == 3
MaxDistance == 2100
NumTimerIds == 3

(* generateSpots(lat, lng, 40) *)
SPOT_COUNT == 40

---------------------------------------------------------------------------
(* Data *)

Modes == {"wide", "near", "3m"}

MBTIS == <<
    <<"I","N","T","J">>, <<"I","N","T","P">>, <<"E","N","T","J">>, <<"E","N","T","P">>,
    <<"I","N","F","J">>, <<"I","N","F","P">>, <<"E","N","F","J">>, <<"E","N","F","P">>,
    <<"I","S","T","J">>, <<"I","S","F","J">>, <<"E","S","T","J">>, <<"E","S","F","J">>,
    <<"I","S","T","P">>, <<"I","S","F","P">>, <<"E","S","T","P">>, <<"E","S","F","P">> >>

Tags == {MBTIS[i] : i \in 1..Len(MBTIS)}

INTJ == <<"I","N","T","J">>
INTP == <<"I","N","T","P">>
ENTJ == <<"E","N","T","J">>
ESFP == <<"E","S","F","P">>

Min(a, b) == IF a < b THEN a ELSE b
Max(a, b) == IF a > b THEN a ELSE b

Range(seq) == {seq[i] : i \in 1..Len(seq)}

(* The spot array whose i-th tag is the pattern's ((i-1) mod length)-th. *)
Cycle(p, count) ==
    [i \in 1..count |-> [id |-> i, mbti |-> p[((i - 1) % Len(p)) + 1]]]

(* The tags the enumerated spot arrays interleave, and the tag patterns. *)
SpotTags == {INTJ, INTP, ENTJ, ESFP}

ScenarioTags == <<INTJ, INTP, ESFP, ENTJ>>

Patterns ==
    {<<t>> : t \in Tags}
      \cup UNION {[1..k -> SpotTags] : k \in 1..MaxPattern}
      \cup {ScenarioTags}

(* Spot arrays handed to the filter as a pure function. *)
SpotInputs == UNION {{Cycle(p, n) : p \in Patterns} : n \in 0..MaxSpots}

(* Outcomes of the random generator enumerated for the component. *)
GenPatterns == {ScenarioTags, <<INTJ, INTP, ENTJ>>, <<ENTJ, INTJ>>, <<ESFP, INTP, INTP>>}

generateSpots(count) == {Cycle(p, count) : p \in GenPatterns}

---------------------------------------------------------------------------
(* clamp *)

clampNoUpper(n, a, b) == Max(a, n)

clamp(n, a, b) == Max(a, Min(b, n))

---------------------------------------------------------------------------
(* vibeScore: the loop for (i = 0; i < 4; i++) if (a[i] === b[i]) s += 1 *)

RECURSIVE vibeLoop(_, _, _, _, _)
vibeLoop(a, b, i, s, n) ==
    IF i < n
      THEN vibeLoop(a, b, i + 1, IF a[i + 1] = b[i + 1] THEN s + 1 ELSE s, n)
      ELSE s

vibeScoreThreeAxes(a, b) == vibeLoop(a, b, 0, 0, 3)

vibeScoreFirstOfB(a, b) == Cardinality({i \in 1..4 : a[i] = b[1]})

vibeScore(a, b) == vibeLoop(a, b, 0, 0, 4)

---------------------------------------------------------------------------
(* visibleSpots: spots.map(score).sort(desc), two thresholds, slice *)

score(sp, tag) ==
    SubSeq([i \in 1..Len(sp) |-> [s |-> sp[i], score |-> vibeScore(tag, sp[i].mbti)]],
           1, Len(sp))

(* The comparator (a, b) => b.score - a.score *)
compareAscending(a, b) == a.score - b.score

compare(a, b) == b.score - a.score

(* Array.prototype.sort is stable: each element goes in front of the first *)
(* one the comparator puts behind it, so behind every element it ties with.*)
RECURSIVE insertionPoint(_, _, _)
insertionPoint(acc, x, i) ==
    IF i > Len(acc) THEN i
    ELSE IF compare(acc[i], x) > 0 THEN i
    ELSE insertionPoint(acc, x, i + 1)

RECURSIVE insertionPointBeforeTies(_, _, _)
insertionPointBeforeTies(acc, x, i) ==
    IF i > Len(acc) THEN i
    ELSE IF compare(acc[i], x) >= 0 THEN i
    ELSE insertionPointBeforeTies(acc, x, i + 1)

insertAt(acc, x, k) == SubSeq(acc, 1, k - 1) \o <<x>> \o SubSeq(acc, k, Len(acc))

RECURSIVE sortFrom(_, _, _)
sortFrom(arr, i, acc) ==
    IF i > Len(arr) THEN acc
    ELSE sortFrom(arr, i + 1, insertAt(acc, arr[i], insertionPoint(acc, arr[i], 1)))

RECURSIVE sortFromUnstable(_, _, _)
sortFromUnstable(arr, i, acc) ==
    IF i > Len(arr) THEN acc
    ELSE sortFromUnstable(arr, i + 1,
             insertAt(acc, arr[i], insertionPointBeforeTies(acc, arr[i], 1)))

sortUnstable(arr) == sortFromUnstable(arr, 1, <<>>)

sort(arr) == sortFrom(arr, 1, <<>>)

unwrap(arr) == [i \in 1..Len(arr) |-> arr[i].s]

(* scored.filter((x) => x.score >= min).map((x) => x.s) *)
filterScore(arr, min) == unwrap(SelectSeq(arr, LAMBDA x : x.score >= min))

(* filtered.slice(0, end) *)
slice(seq, end) == SubSeq(seq, 1, Min(end, Len(seq)))

(* if (filtered.length < 10) *)
tooFewOrTen(filtered) == Len(filtered) <= 10

tooFew(filtered) == Len(filtered) < 10

(* if (mode === "3m") return filtered.slice(0, 5); return filtered.slice(0, 18) *)
truncateOneMore(m, filtered) ==
    IF m = "3m" THEN slice(filtered, 6) ELSE slice(filtered, 19)

truncate(m, filtered) ==
    IF m = "3m" THEN slice(filtered, 5) ELSE slice(filtered, 18)

(* if (mode === "wide") return spots *)
wideCapped(sp) == slice(sp, 18)

wide(sp) == sp

(* const scored = spots.map(...).sort(...); not reached in wide mode *)
memoScored(m, sp, tag) ==
    IF m = "wide" THEN <<>> ELSE sort(score(sp, tag))

(* The value of the memo, given its scored array *)
memoVisibleSpots(m, sp, sc) ==
    IF m = "wide" THEN wide(sp)
    ELSE LET strict == filterScore(sc, 3)
             filtered == IF tooFew(strict) THEN filterScore(sc, 2) ELSE strict
         IN  truncate(m, filtered)

---------------------------------------------------------------------------
(* markerStyle, on the distance d.  t = 1 - clamp(d / maxD, 0, 1) is the   *)
(* rational tNum / maxD; opacity = 0.10 + t * 0.80 is opacityNum /         *)
(* (100 * maxD); radius = 5 + t * 10 is radiusNum / maxD.                  *)

charCode(c) ==
    CASE c = "E" -> 69 [] c = "F" -> 70 [] c = "I" -> 73 [] c = "J" -> 74
      [] c = "N" -> 78 [] c = "P" -> 80 [] c = "S" -> 83 [] c = "T" -> 84

styleWith(s, dist, m, tNum, maxD) ==
    [opacityNum |-> 10 * maxD + tNum * 80,
     radiusNum  |-> 5 * maxD + tNum * 10,
     den        |-> maxD,
     hue        |-> (charCode(s.mbti[1]) + charCode(s.mbti[4])) % 360,
     d          |-> dist]

markerStyle(s, dist, m) ==
    LET maxD == IF m = "wide" THEN 2000 ELSE 600
    IN  styleWith(s, dist, m, maxD - clamp(dist, 0, maxD), maxD)

NoStyle == [opacityNum |-> 0, radiusNum |-> 0, den |-> 0, hue |-> 0, d |-> 0]

---------------------------------------------------------------------------
(* The filter as a pure function: inputs drawn at Init, one call. *)

IntroToast == [show |-> TRUE, title |-> "intro", sub |-> "intro_sub"]

InitSelect ==
    /\ pc = "args"
    /\ mode \in Modes
    /\ myMbti \in Tags
    /\ spots \in SpotInputs
    /\ me = "default"
    /\ scored = <<>>
    /\ visibleSpots = <<>>
    /\ toast = IntroToast
    /\ timers = {}
    /\ timerCurrent = 0
    /\ geo = "idle"
    /\ seen = <<>>
    /\ d = 0
    /\ style = NoStyle

Select ==
    /\ pc = "args"
    /\ pc' = "returned"
    /\ scored' = memoScored(mode, spots, myMbti)
    /\ visibleSpots' = memoVisibleSpots(mode, spots, scored')
    /\ UNCHANGED <<mode, myMbti, me, spots, toast, timers, timerCurrent, geo, seen, d, style>>

NextSelect == Select

SpecSelect == InitSelect /\ [][NextSelect]_vars

---------------------------------------------------------------------------
(* The style mapper as a pure function of the spot, the distance and the mode. *)

InitStyle ==
    /\ pc = "args"
    /\ mode \in Modes
    /\ myMbti = INTJ
    /\ spots \in {Cycle(<<t>>, 1) : t \in Tags}
    /\ d \in 0..MaxDistance
    /\ me = "default"
    /\ scored = <<>>
    /\ visibleSpots = <<>>
    /\ toast = IntroToast
    /\ timers = {}
    /\ timerCurrent = 0
    /\ geo = "idle"
    /\ seen = <<>>
    /\ style = NoStyle

Style ==
    /\ pc = "args"
    /\ pc' = "returned"
    /\ style' = markerStyle(spots[1], d, mode)
    /\ UNCHANGED <<mode, myMbti, me, spots, scored, visibleSpots, toast, timers,
                   timerCurrent, geo, seen, d>>

NextStyle == Style

SpecStyle == InitStyle /\ [][NextStyle]_vars

---------------------------------------------------------------------------
(* The component MVP_SPOT: mount, mode changes, the toast's hide timer and *)
(* the geolocation callbacks.                                              *)

Init ==
    /\ pc = "constructed"
    /\ mode = "wide"
    /\ myMbti \in Tags
    /\ me = "default"
    /\ spots \in generateSpots(SPOT_COUNT)
    /\ scored = memoScored(mode, spots, myMbti)
    /\ visibleSpots = memoVisibleSpots(mode, spots, scored)
    /\ toast = IntroToast
    /\ timers = {}
    /\ timerCurrent = 0
    /\ geo = "idle"
    /\ seen = [m \in {mode} |-> visibleSpots]
    /\ d = 0
    /\ style = NoStyle

(* useMemo(..., [mode, spots, myMbti]): the render that follows a state    *)
(* change recomputes the memo when a dependency changed.  seen keeps the   *)
(* first sequence rendered in each mode since the data last changed.       *)
Render(dataChanged) ==
    /\ IF <<mode', spots', myMbti'>> # <<mode, spots, myMbti>>
         THEN /\ scored' = memoScored(mode', spots', myMbti')
              /\ visibleSpots' = memoVisibleSpots(mode', spots', scored')
         ELSE UNCHANGED <<scored, visibleSpots>>
    /\ seen' = IF dataChanged
                 THEN [m \in {mode'} |-> visibleSpots']
                 ELSE [m \in DOMAIN seen \cup {mode'} |->
                          IF m \in DOMAIN seen THEN seen[m] ELSE visibleSpots']

(* A message displayed now makes every timer still pending a timer of an   *)
(* earlier message.                                                        *)
Outdated(ts) == {[t EXCEPT !.stale = TRUE] : t \in ts}

(* window.clearTimeout(id) *)
clearTimeout(ts, id) == {t \in ts : t.id # id}

(* An id window.setTimeout can return: none that is pending or still held. *)
FreshIds(ts) == {i \in 1..NumTimerIds : i # timerCurrent /\ \A t \in ts : t.id # i}

(* useEffect(() => setMounted(true), []) and the geolocation effect *)
Mount(available) ==
    /\ pc = "constructed"
    /\ pc' = "mounted"
    /\ IF available
         THEN /\ geo' = "pending"
              /\ UNCHANGED <<toast, timers>>
         ELSE /\ geo' = "done"
              /\ toast' = [show |-> TRUE, title |-> "geo_unavailable", sub |-> "check_permission"]
              /\ timers' = Outdated(timers)
    /\ UNCHANGED <<mode, myMbti, me, spots, timerCurrent, d, style>>
    /\ Render(FALSE)

(* showToast(title, sub, ms = 1500) *)
showToast(title, sub) ==
    LET cleared == IF timerCurrent # 0 THEN clearTimeout(timers, timerCurrent) ELSE timers
    IN  /\ toast' = [show |-> TRUE, title |-> title, sub |-> sub]
        /\ \E id \in FreshIds(cleared) :
              /\ id = CHOOSE i \in FreshIds(cleared) : \A k \in FreshIds(cleared) : i <= k
              /\ timers' = Outdated(cleared) \cup {[id |-> id, stale |-> FALSE]}
              /\ timerCurrent' = id

(* The toast changeMode shows for each mode *)
modeToast(next) ==
    IF next = "wide" THEN [title |-> "flow_today", sub |-> "where_gathered"]
    ELSE IF next = "near" THEN [title |-> "closer_clearer", sub |-> "similar_first"]
    ELSE [title |-> "within_3m", sub |-> "might_meet"]

changeModeReshuffles(next) ==
    /\ pc = "mounted"
    /\ mode' = next
    /\ showToast(modeToast(next).title, modeToast(next).sub)
    /\ spots' = [i \in 1..Len(spots) |-> spots[Len(spots) + 1 - i]]
    /\ UNCHANGED <<pc, myMbti, me, geo, d, style>>
    /\ Render(FALSE)

changeMode(next) ==
    /\ pc = "mounted"
    /\ mode' = next
    /\ showToast(modeToast(next).title, modeToast(next).sub)
    /\ UNCHANGED <<pc, myMbti, me, spots, geo, d, style>>
    /\ Render(FALSE)

(* The timeout callback: setToast((t) => ({ ...t, show: false })) *)
TimerFires(t) ==
    /\ pc = "mounted"
    /\ t \in timers
    /\ timers' = timers \ {t}
    /\ toast' = [toast EXCEPT !.show = FALSE]
    /\ UNCHANGED <<pc, mode, myMbti, me, spots, timerCurrent, geo, d, style>>
    /\ Render(FALSE)

(* getCurrentPosition's success callback *)
GeoSuccess(generated) ==
    /\ pc = "mounted"
    /\ geo = "pending"
    /\ geo' = "done"
    /\ me' = "located"
    /\ spots' = generated
    /\ UNCHANGED <<pc, mode, myMbti, toast, timers, timerCurrent, d, style>>
    /\ Render(TRUE)

(* getCurrentPosition's error callback *)
GeoError(permissionDenied) ==
    /\ pc = "mounted"
    /\ geo = "pending"
    /\ geo' = "done"
    /\ toast' = [show |-> TRUE, title |-> "geo_failed",
                 sub |-> IF permissionDenied THEN "allow_permission" ELSE "check_network"]
    /\ timers' = Outdated(timers)
    /\ UNCHANGED <<pc, mode, myMbti, me, spots, timerCurrent, d, style>>
    /\ Render(FALSE)

(* The cleanup of the timer effect: if (timer.current) clearTimeout(timer.current) *)
Unmount ==
    /\ pc = "mounted"
    /\ pc' = "unmounted"
    /\ timers' = IF timerCurrent # 0 THEN clearTimeout(timers, timerCurrent) ELSE timers
    /\ UNCHANGED <<mode, myMbti, me, spots, scored, visibleSpots, toast, timerCurrent,
                   geo, seen, d, style>>

Next ==
    \/ \E available \in BOOLEAN : Mount(available)
    \/ \E next \in Modes : changeMode(next)
    \/ \E t \in timers : TimerFires(t)
    \/ \E generated \in generateSpots(SPOT_COUNT) : GeoSuccess(generated)
    \/ \E permissionDenied \in BOOLEAN : GeoError(permissionDenied)
    \/ Unmount

Spec == Init /\ [][Next]_vars

---------------------------------------------------------------------------
(* Properties of the component, under Spec *)

(* C9: a mode change leaves the spots and the viewer's tag as they were;   *)
(* what near or 3m mode showed is among what wide mode showed for the same *)
(* data; a mode entered again with the same data shows the same sequence.  *)
C9_ModeChange ==
    /\ [](\A m \in DOMAIN seen :
            "wide" \in DOMAIN seen => Range(seen[m]) \subseteq Range(seen["wide"]))
    /\ [](mode \in DOMAIN seen /\ seen[mode] = visibleSpots)
    /\ [][(mode' # mode \/ timerCurrent' # timerCurrent)
            => (spots' = spots /\ myMbti' = myMbti)]_vars

(* Near mode entered a second time, after wide and 3m, with some spots     *)
(* filtered out. *)
C9_Witness ==
    /\ pc = "mounted"
    /\ mode = "near"
    /\ DOMAIN seen = Modes
    /\ Len(seen["near"]) < Len(seen["wide"])
    /\ Len(seen["3m"]) < Len(seen["near"])

(* C10: at most one hide timer is pending, and the timer that hides the    *)
(* toast was armed when the message on display was shown, or later.        *)
C10_ToastTimer ==
    /\ [](Cardinality(timers) <= 1)
    /\ [][\A t \in timers : (timers' = timers \ {t} /\ toast'.show = FALSE /\ toast.show)
            => ~t.stale]_vars

(* The part of C10 that the component keeps: one pending timer at most,    *)
(* and it is the one timer.current names.                                  *)
OnePendingTimer == \A t \in timers : timers = {t} /\ t.id = timerCurrent

---------------------------------------------------------------------------
(* Properties of the scorer and the filter, under SpecSelect *)

(* The affinity of a spot with the viewer, stated independently of the     *)
(* code's loop: the number of positions where the two tags agree.          *)
Agree(a, b) == Cardinality({i \in 1..4 : a[i] = b[i]})

Affinity(s) == Agree(myMbti, s.mbti)

Returned == pc = "returned"

Filtering == Returned /\ mode \in {"near", "3m"}

NumStrict == Cardinality({i \in 1..Len(spots) : Affinity(spots[i]) >= 3})

(* The position of a returned spot in the input array. *)
InputPos(s) == CHOOSE k \in 1..Len(spots) : spots[k] = s

TagsOf(seq) == [i \in 1..Len(seq) |-> seq[i].mbti]

Count(x, seq) == Cardinality({i \in 1..Len(seq) : seq[i] = x})

InScenario == myMbti = INTJ /\ TagsOf(spots) = ScenarioTags

(* C1: in near and 3m mode every returned spot has affinity >= 2 with the  *)
(* viewer, and when at least 10 input spots have affinity >= 3 every       *)
(* returned spot has affinity >= 3.                                        *)
C1_Threshold ==
    Filtering =>
        /\ \A s \in Range(visibleSpots) : Affinity(s) >= 2
        /\ NumStrict >= 10 => \A s \in Range(visibleSpots) : Affinity(s) >= 3

(* Exactly 10 strict spots, and affinity-2 spots in the input that the     *)
(* filter left out. *)
C1_Witness ==
    /\ Filtering
    /\ mode = "near"
    /\ NumStrict = 10
    /\ \E i \in 1..Len(spots) : Affinity(spots[i]) = 2
    /\ Len(visibleSpots) = 10

(* C2: at most 18 spots are returned in near mode and at most 5 in 3m mode. *)
C2_Caps ==
    Returned =>
        /\ mode = "near" => Len(visibleSpots) <= 18
        /\ mode = "3m" => Len(visibleSpots) <= 5

(* More than 18 spots pass the threshold and 18 are returned. *)
C2_Witness ==
    /\ Returned
    /\ mode = "near"
    /\ NumStrict > 18
    /\ Len(visibleSpots) = 18

(* C3: the returned sequence is in non-increasing order of affinity, and   *)
(* returned spots of equal affinity keep their relative input order.       *)
C3_StableRank ==
    Filtering =>
        \A i, j \in 1..Len(visibleSpots) :
            i < j =>
                /\ Affinity(visibleSpots[i]) >= Affinity(visibleSpots[j])
                /\ Affinity(visibleSpots[i]) = Affinity(visibleSpots[j])
                      => InputPos(visibleSpots[i]) < InputPos(visibleSpots[j])

(* A result with a tie, and with a pair the sort had to swap. *)
C3_Witness ==
    /\ Filtering
    /\ \E i, j \in 1..Len(visibleSpots) :
          /\ i < j
          /\ Affinity(visibleSpots[i]) = Affinity(visibleSpots[j])
    /\ \E i, j \in 1..Len(visibleSpots) :
          /\ i < j
          /\ Affinity(visibleSpots[i]) > Affinity(visibleSpots[j])
          /\ InputPos(visibleSpots[i]) > InputPos(visibleSpots[j])

(* C4: in wide mode the result holds exactly the input spots, each as many *)
(* times as the input does (the empty input included).                     *)
C4_WideAll ==
    (Returned /\ mode = "wide") =>
        /\ Len(visibleSpots) = Len(spots)
        /\ \A x \in Range(spots) \cup Range(visibleSpots) :
              Count(x, visibleSpots) = Count(x, spots)

(* A wide result longer than the near cap, with spots of affinity below 2. *)
C4_Witness ==
    /\ Returned
    /\ mode = "wide"
    /\ Len(spots) > 18
    /\ Len(visibleSpots) = Len(spots)
    /\ \E i \in 1..Len(spots) : Affinity(spots[i]) < 2

(* C5: every score the memo computed is the number of agreeing positions,  *)
(* lies in 0..4, equals the score with the arguments exchanged, and is 4   *)
(* for a spot carrying the viewer's own tag.                               *)
C5_Affinity ==
    Filtering =>
        \A x \in Range(scored) :
            /\ x.score = Agree(myMbti, x.s.mbti)
            /\ x.score \in 0..4
            /\ x.score = vibeScore(x.s.mbti, myMbti)
            /\ x.s.mbti = myMbti => x.score = 4
            /\ vibeScore(myMbti, myMbti) = 4

(* A scored spot whose tag agrees with the viewer's in the first position  *)
(* only: the two argument orders read different characters.                *)
C5_Witness ==
    /\ Filtering
    /\ \E x \in Range(scored) :
          /\ x.score = 1
          /\ x.s.mbti[1] = myMbti[1]

(* C6 as stated: for viewer INTJ and spot tags INTJ, INTP, ESFP, ENTJ the   *)
(* scores are 4, 3, 0, 2 in that order.                                    *)
C6_AsStated ==
    (Filtering /\ InScenario) =>
        \A i \in 1..4 :
            \E x \in Range(scored) : x.s = spots[i] /\ x.score = <<4, 3, 0, 2>>[i]

(* C6, amended: for viewer INTJ and spot tags INTJ, INTP, ESFP, ENTJ the    *)
(* scores are 4, 3, 0, 3 in that order (ENTJ agrees with INTJ in three     *)
(* positions).                                                             *)
C6_ScenarioScores ==
    (Filtering /\ InScenario) =>
        /\ Len(scored) = 4
        /\ \A i \in 1..4 :
              \E x \in Range(scored) : x.s = spots[i] /\ x.score = <<4, 3, 0, 3>>[i]

C6_Witness == Filtering /\ InScenario /\ Len(scored) = 4

(* C7: for viewer INTJ and spot tags INTJ, INTP, ESFP, ENTJ the 3m result   *)
(* is the spots tagged INTJ, INTP, ENTJ, in that order.                    *)
C7_ScenarioFocused ==
    (Returned /\ mode = "3m" /\ InScenario) =>
        visibleSpots = <<spots[1], spots[2], spots[4]>>

C7_Witness ==
    /\ Returned
    /\ mode = "3m"
    /\ InScenario
    /\ TagsOf(visibleSpots) = <<INTJ, INTP, ENTJ>>

---------------------------------------------------------------------------
(* Properties of the style mapper, under SpecStyle *)

MaxDistanceOf(m) == IF m = "wide" THEN 2000 ELSE 600

(* C8: opacity is in [0.10, 0.90] and radius in [5, 15]; at d = 0 they are  *)
(* 0.90 and 15; at d >= maxDistance(mode) they are 0.10 and 5.             *)
C8_StyleRange ==
    Returned =>
        /\ style.den > 0
        /\ 10 * style.den <= style.opacityNum
        /\ style.opacityNum <= 90 * style.den
        /\ 5 * style.den <= style.radiusNum
        /\ style.radiusNum <= 15 * style.den
        /\ d = 0 =>
              /\ style.opacityNum = 90 * style.den
              /\ style.radiusNum = 15 * style.den
        /\ d >= MaxDistanceOf(mode) =>
              /\ style.opacityNum = 10 * style.den
              /\ style.radiusNum = 5 * style.den

(* A spot beyond the wide range, styled. *)
C8_Witness ==
    /\ Returned
    /\ mode = "wide"
    /\ d > 2000
    /\ style.d = d
    /\ style.opacityNum = 10 * style.den

====
